---------------------------- MODULE Spec2Model ----------------------------
(***************************************************************************)
(* TaskManagerPRO: the recurring-task engine of the backend                *)
(* (services/recurringTaskService.ts), the cron tick of index.ts and the   *)
(* task routes that call into the engine.                                  *)
(*                                                                         *)
(* A Date is an integer number of ticks of local time since 2023-01-01     *)
(* 00:00, TicksPerDay ticks to the day; 2023-01-01 is a Sunday, so the     *)
(* weekday of day n is n % 7 with 0 = Sunday as in Date.prototype.getDay.  *)
(***************************************************************************)
EXTENDS Integers, Sequences, FiniteSets, TLC

\* ------------------------------------------------------------------ bounds
TicksPerDay == 2
CalcLastDay == 456
MaxTasks == 5
MaxRequests == 2
MaxSweeps == 2

\* ------------------------------------------------------- absent values
\* An optional field of ITask that is not set.
NoValue == -1
NoType == "none"

\* ---------------------------------------------------------------- calendar
Years == 2023 .. 2027
EpochYear == CHOOSE y \in Years : \A z \in Years : y <= z

IsLeap(y) == (y % 4 = 0 /\ y % 100 # 0) \/ y % 400 = 0

DaysInYear(y) == IF IsLeap(y) THEN 366 ELSE 365

\* m is 0-based, as in Date.prototype.getMonth
DaysInMonth(y, m) ==
    IF m = 1 THEN (IF IsLeap(y) THEN 29 ELSE 28)
    ELSE IF m \in {3, 5, 8, 10} THEN 30 ELSE 31

RECURSIVE YearStart(_)
YearStart(y) == IF y <= EpochYear THEN 0 ELSE YearStart(y - 1) + DaysInYear(y - 1)

RECURSIVE MonthOffset(_, _)
MonthOffset(y, m) == IF m = 0 THEN 0 ELSE MonthOffset(y, m - 1) + DaysInMonth(y, m - 1)

\* ECMAScript MakeDay: month and day-of-month outside their ranges carry over.
MakeDay(y, m, d) ==
    LET ym == y + (m \div 12)
        mn == m % 12
    IN  YearStart(ym) + MonthOffset(ym, mn) + d - 1

DayOf(t) == t \div TicksPerDay
TimeOfDay(t) == t % TicksPerDay
MakeDate(day, tod) == day * TicksPerDay + tod

\* ECMAScript YearFromTime, MonthFromTime and DateFromTime, on day numbers
YearFromDay(n) ==
    CHOOSE y \in Years : YearStart(y) <= n /\ n < YearStart(y) + DaysInYear(y)

DayWithinYear(n) == n - YearStart(YearFromDay(n))

MonthInYear(y, k) ==
    CHOOSE m \in 0 .. 11 : MonthOffset(y, m) <= k /\ k < MonthOffset(y, m) + DaysInMonth(y, m)

MonthFromDay(n) == MonthInYear(YearFromDay(n), DayWithinYear(n))

DateInYear(y, k) == k - MonthOffset(y, MonthInYear(y, k)) + 1

DateFromDay(n) == DateInYear(YearFromDay(n), DayWithinYear(n))

getFullYear(t) == YearFromDay(DayOf(t))

getMonth(t) == MonthFromDay(DayOf(t))

getDate(t) == DateFromDay(DayOf(t))

getDay(t) == DayOf(t) % 7

setDate(t, d) == MakeDate(MakeDay(getFullYear(t), getMonth(t), d), TimeOfDay(t))

setMonth(t, m) == MakeDate(MakeDay(getFullYear(t), m, getDate(t)), TimeOfDay(t))

setFullYear(t, y, m, d) == MakeDate(MakeDay(y, m, d), TimeOfDay(t))

setHoursZero(t) == MakeDate(DayOf(t), 0)

\* ------------------------------------------------- calculateNextDueDate
\* task.recurringInterval || 1
intervalOrOne(task) ==
    IF task.recurringInterval = NoValue \/ task.recurringInterval = 0
    THEN 1 ELSE task.recurringInterval

\* a variant that steps one day whatever the interval
nextDailyIgnoringInterval(task) ==
    setDate(task.dueDate, getDate(task.dueDate) + 1)

nextDaily(task) ==
    setDate(task.dueDate, getDate(task.dueDate) + intervalOrOne(task))

weeklyDaysToAdd(recurringDays, currentDayOfWeek) ==
    LET nextDays == SelectSeq(recurringDays, LAMBDA day : day > currentDayOfWeek)
    IN  IF Len(nextDays) > 0
        THEN nextDays[1] - currentDayOfWeek
        ELSE 7 - currentDayOfWeek + recurringDays[1]

\* a variant whose step without recurringDays is one week whatever the interval
nextWeeklyIgnoringInterval(task) ==
    IF Len(task.recurringDays) > 0
    THEN setDate(task.dueDate,
                 getDate(task.dueDate) + weeklyDaysToAdd(task.recurringDays, getDay(task.dueDate)))
    ELSE setDate(task.dueDate, getDate(task.dueDate) + 7)

nextWeekly(task) ==
    IF Len(task.recurringDays) > 0
    THEN setDate(task.dueDate,
                 getDate(task.dueDate) + weeklyDaysToAdd(task.recurringDays, getDay(task.dueDate)))
    ELSE setDate(task.dueDate, getDate(task.dueDate) + intervalOrOne(task) * 7)

\* a variant without the adjustment for months with fewer days
monthlyOnDateUnclamped(currentDueDate, recurringDate) ==
    LET targetMonth == getMonth(currentDueDate) + 1
        targetYear == getFullYear(currentDueDate) + (IF targetMonth > 11 THEN 1 ELSE 0)
    IN  setFullYear(currentDueDate, targetYear, targetMonth % 12, recurringDate)

monthlyOnDate(currentDueDate, recurringDate) ==
    LET targetMonth == getMonth(currentDueDate) + 1
        targetYear == getFullYear(currentDueDate) + (IF targetMonth > 11 THEN 1 ELSE 0)
        normalizedMonth == targetMonth % 12
        first == setFullYear(currentDueDate, targetYear, normalizedMonth, 1)
        \* new Date(targetYear, normalizedMonth + 1, 0).getDate()
        daysInMonth == getDate(MakeDate(MakeDay(targetYear, normalizedMonth + 1, 0), 0))
        day == IF recurringDate < daysInMonth THEN recurringDate ELSE daysInMonth
    IN  setDate(first, day)

monthlyByInterval(task) ==
    setMonth(task.dueDate, getMonth(task.dueDate) + intervalOrOne(task))

nextMonthly(task) ==
    IF task.recurringDate # NoValue /\ task.recurringDate # 0
    THEN monthlyOnDate(task.dueDate, task.recurringDate)
    ELSE monthlyByInterval(task)

nextCustom(task) ==
    setDate(task.dueDate, getDate(task.dueDate) + intervalOrOne(task))

calculateNextDueDate(task) ==
    CASE task.recurringType = "daily" -> nextDaily(task)
      [] task.recurringType = "weekly" -> nextWeekly(task)
      [] task.recurringType = "monthly" -> nextMonthly(task)
      [] task.recurringType = "custom" -> nextCustom(task)
      [] OTHER -> task.dueDate

\* ------------------------------------------------------------------ state
VARIABLES
    tasks,      \* the Task collection: _id -> document
    nextId,     \* the next _id to be assigned; ids are never reused
    sweep,      \* the cron tick in progress: its position, its lists and its counts
    calls,      \* the createRecurringTaskInstance calls of the last step, in order
    nRequests,  \* requests handled so far
    nSweeps,    \* cron ticks started so far
    quiet,      \* a tick has returned and no request has been handled since
    calcTask,   \* the calculator's input, when it is exercised on its own
    calcResult, \* and its result
    accounts,   \* the User collection: _id -> role
    userRequests \* the requests to the user routes, each with its position

vars == <<tasks, nextId, sweep, calls, nRequests, nSweeps, quiet, calcTask, calcResult,
          accounts, userRequests>>

storeVars == <<tasks, nextId, sweep, calls, nRequests, nSweeps, quiet>>

calcVars == <<calcTask, calcResult>>

userVars == <<accounts, userRequests>>

\* ------------------------------------------------------------------ users
Users == {"admin", "manager", "user"}

\* IUser.role; the three accounts hold one role each
role(u) == u

rolePermissions(r) ==
    CASE r = "admin" ->
           {"tasks:create", "tasks:read", "tasks:update", "tasks:delete", "tasks:assign",
            "tasks:read-all", "tasks:update-all", "tasks:delete-all", "users:read",
            "users:update", "users:create", "users:delete", "users:manage-roles",
            "reports:view", "reports:export", "system:settings"}
      [] r = "manager" ->
           {"tasks:create", "tasks:read", "tasks:update", "tasks:delete", "tasks:assign",
            "tasks:read-all", "tasks:update-all", "tasks:delete-all", "users:read",
            "reports:view", "reports:export"}
      [] r = "user" ->
           {"tasks:create", "tasks:read", "tasks:update", "tasks:delete", "tasks:assign"}
      [] OTHER -> {}

hasPermission(user, permission) == permission \in rolePermissions(role(user))

\* ------------------------------------------------------- the Task document
newTask(id, title, description, dueDate, priority, assignedTo, createdBy) ==
    [id |-> id, title |-> title, description |-> description, dueDate |-> dueDate,
     priority |-> priority, status |-> "todo", assignedTo |-> assignedTo,
     createdBy |-> createdBy, isRecurring |-> FALSE, recurringType |-> NoType,
     recurringInterval |-> NoValue, recurringDays |-> <<>>, recurringDate |-> NoValue,
     recurringEndDate |-> NoValue, parentTaskId |-> NoValue]

\* $set: the fields the body holds replace the document's
setFields(task, body) ==
    [f \in DOMAIN task |-> IF f \in DOMAIN body THEN body[f] ELSE task[f]]

\* Task.find results come back in insertion order
RECURSIVE inIdOrder(_, _)
inIdOrder(ids, ts) ==
    IF ids = {} THEN <<>>
    ELSE LET m == CHOOSE i \in ids : \A j \in ids : i <= j
         IN  <<ts[m]>> \o inIdOrder(ids \ {m}, ts)

\* ---------------------------------------------- createRecurringTaskInstance
\* Storage faults: at most one kind of storage call fails during one step.
Faults == {"none", "save", "notify"}

\* a variant that also stops on the end date itself
endDateReachedInclusive(parentTask, newDueDate) ==
    parentTask.recurringEndDate # NoValue /\ newDueDate >= parentTask.recurringEndDate

endDateReached(parentTask, newDueDate) ==
    parentTask.recurringEndDate # NoValue /\ newDueDate > parentTask.recurringEndDate

\* a variant that copies the whole parent document, recurrence settings and status
\* included
newTaskInstanceCopyingParent(parentTask, newDueDate, id) ==
    [parentTask EXCEPT !.id = id, !.dueDate = newDueDate, !.isRecurring = FALSE,
                       !.parentTaskId = parentTask.id]

newTaskInstance(parentTask, newDueDate, id) ==
    [newTask(id, parentTask.title, parentTask.description, newDueDate, parentTask.priority,
             parentTask.assignedTo, parentTask.createdBy)
       EXCEPT !.parentTaskId = parentTask.id]

\* a variant that notifies the assignee even when the assignee created the task
assigneeNotificationAlways(instance, fault) ==
    IF fault # "notify"
    THEN {[user |-> instance.assignedTo, type |-> "task_assigned", entityId |-> instance.id]}
    ELSE {}

\* createNotification(assignedTo, ..., 'task_assigned', instance._id)
assigneeNotification(instance, fault) ==
    IF instance.assignedTo # instance.createdBy /\ fault # "notify"
    THEN {[user |-> instance.assignedTo, type |-> "task_assigned", entityId |-> instance.id]}
    ELSE {}

\* st = [tasks, nextId, calls]: the store the call runs on; the result is the store
\* after it, with the call appended to the log: the parent as passed, the date
\* computed, the value returned (an _id or null), the documents the call added and
\* the notifications it sent.
\* a variant in which a failed notification reaches the catch: the instance is saved
\* and null is returned
saveInstanceNotifyThrows(st, parentTask, newDueDate, instance, fault) ==
    LET call == [parent |-> parentTask, newDueDate |-> newDueDate, fault |-> fault,
                 result |-> NoValue, added |-> {}, sent |-> {}]
    IN  IF endDateReached(parentTask, newDueDate) \/ fault = "save"
        THEN [st EXCEPT !.calls = Append(@, call)]
        ELSE [tasks |-> (st.nextId :> instance) @@ st.tasks,
              nextId |-> st.nextId + 1,
              calls |-> Append(st.calls,
                               [call EXCEPT !.result = IF fault = "notify" THEN NoValue
                                                       ELSE st.nextId,
                                            !.added = {st.nextId} \ DOMAIN st.tasks,
                                            !.sent = assigneeNotification(instance, fault)])]

\* a variant in which a failed save leaves the document behind
saveInstanceHalfSaved(st, parentTask, newDueDate, instance, fault) ==
    LET call == [parent |-> parentTask, newDueDate |-> newDueDate, fault |-> fault,
                 result |-> NoValue, added |-> {}, sent |-> {}]
    IN  IF endDateReached(parentTask, newDueDate)
        THEN [st EXCEPT !.calls = Append(@, call)]
        ELSE [tasks |-> (st.nextId :> instance) @@ st.tasks,
              nextId |-> st.nextId + 1,
              calls |-> Append(st.calls,
                               [call EXCEPT !.result = IF fault = "save" THEN NoValue
                                                       ELSE st.nextId,
                                            !.added = {st.nextId} \ DOMAIN st.tasks,
                                            !.sent = assigneeNotification(instance, fault)])]

\* a variant that moves the parent's dueDate on to the date of the instance it saves
saveInstanceAdvancingParent(st, parentTask, newDueDate, instance, fault) ==
    LET call == [parent |-> parentTask, newDueDate |-> newDueDate, fault |-> fault,
                 result |-> NoValue, added |-> {}, sent |-> {}]
    IN  IF endDateReached(parentTask, newDueDate) \/ fault = "save"
        THEN [st EXCEPT !.calls = Append(@, call)]
        ELSE [tasks |-> (st.nextId :> instance)
                          @@ [i \in DOMAIN st.tasks |->
                                IF i = parentTask.id
                                THEN [st.tasks[i] EXCEPT !.dueDate = newDueDate]
                                ELSE st.tasks[i]],
              nextId |-> st.nextId + 1,
              calls |-> Append(st.calls,
                               [call EXCEPT !.result = st.nextId,
                                            !.added = {st.nextId} \ DOMAIN st.tasks,
                                            !.sent = assigneeNotification(instance, fault)])]

saveInstance(st, parentTask, newDueDate, instance, fault) ==
    LET call == [parent |-> parentTask, newDueDate |-> newDueDate, fault |-> fault,
                 result |-> NoValue, added |-> {}, sent |-> {}]
    IN  IF endDateReached(parentTask, newDueDate) \/ fault = "save"
        THEN [st EXCEPT !.calls = Append(@, call)]
        ELSE [tasks |-> (st.nextId :> instance) @@ st.tasks,
              nextId |-> st.nextId + 1,
              calls |-> Append(st.calls,
                               [call EXCEPT !.result = st.nextId,
                                            !.added = {st.nextId} \ DOMAIN st.tasks,
                                            !.sent = assigneeNotification(instance, fault)])]

instanceDueOn(st, parentTask, newDueDate, fault) ==
    saveInstance(st, parentTask, newDueDate,
                 newTaskInstance(parentTask, newDueDate, st.nextId), fault)

createRecurringTaskInstance(st, parentTask, fault) ==
    instanceDueOn(st, parentTask, calculateNextDueDate(parentTask), fault)

store == [tasks |-> tasks, nextId |-> nextId, calls |-> <<>>]

\* The step ends with the store st; ids are drawn from 1 .. MaxTasks only.
commit(st) ==
    /\ st.nextId <= MaxTasks + 1
    /\ tasks' = st.tasks
    /\ nextId' = st.nextId
    /\ calls' = st.calls

\* ------------------------------------------------------- request inputs
\* 2024-01-01 00:00, a Monday, and 2024-01-31 12:00, a Wednesday
Monday == MakeDate(MakeDay(2024, 0, 1), 0)
MonthEnd == MakeDate(MakeDay(2024, 0, 31), 1)

CreateBodies ==
    [title : {"A"}, description : {"a"}, dueDate : {Monday}, priority : {"low"},
     assignedTo : {"user"}, isRecurring : {TRUE}, recurringType : {"weekly"},
     recurringInterval : {NoValue}, recurringDays : {<<1, 4>>}, recurringDate : {NoValue},
     recurringEndDate : {NoValue}]
    \cup
    [title : {"B"}, description : {"b"}, dueDate : {MonthEnd}, priority : {"high"},
     assignedTo : {"user"}, isRecurring : {TRUE}, recurringType : {"daily"},
     recurringInterval : {NoValue}, recurringDays : {<<>>}, recurringDate : {NoValue},
     recurringEndDate : {MonthEnd + TicksPerDay, MonthEnd + TicksPerDay - 1}]
    \cup
    [title : {"B"}, description : {"b"}, dueDate : {Monday}, priority : {"high"},
     assignedTo : {"user"}, isRecurring : BOOLEAN, recurringType : {NoType},
     recurringInterval : {NoValue}, recurringDays : {<<>>}, recurringDate : {NoValue},
     recurringEndDate : {NoValue}]

\* who sends which create request
CreateRequests ==
    { r \in [user : Users, body : CreateBodies] :
        r.user = (IF r.body.title = "A" THEN "manager" ELSE "user") }

UpdateBodies ==
    { [status |-> "completed"], [title |-> "C"], [isRecurring |-> TRUE],
      [isRecurring |-> FALSE], [recurringEndDate |-> MonthEnd + TicksPerDay],
      [parentTaskId |-> 1], [parentTaskId |-> 2] }
    \cup { [status |-> "completed", isRecurring |-> TRUE, recurringType |-> t] :
             t \in {"daily", "weekly"} }
    \cup { [dueDate |-> d, isRecurring |-> b] : d \in {Monday + TicksPerDay}, b \in BOOLEAN }
    \cup { [dueDate |-> Monday + 3 * TicksPerDay + 1, isRecurring |-> FALSE] }

\* A request's own first storage call is taken to work (a request whose first call
\* fails changes nothing); the calls after it may fail.
RouteFaults == {"none", "save", "notify", "deleteMany"}

\* ------------------------------------------------------- POST /api/tasks
taskAssignee(body, user) == IF body.assignedTo \in Users THEN body.assignedTo ELSE user

createdTask(id, body, user) ==
    [newTask(id, body.title, body.description, body.dueDate, body.priority,
             taskAssignee(body, user), user)
       EXCEPT !.isRecurring = body.isRecurring,
              !.recurringType = body.recurringType,
              !.recurringInterval = body.recurringInterval,
              !.recurringDays = body.recurringDays,
              !.recurringDate = body.recurringDate,
              !.recurringEndDate = body.recurringEndDate]

postTask(st, user, body, fault) ==
    IF body.isRecurring /\ body.recurringType = NoType
    THEN st
    ELSE LET task == createdTask(st.nextId, body, user)
             saved == [st EXCEPT !.tasks = (st.nextId :> task) @@ @, !.nextId = @ + 1]
         IN  IF body.isRecurring
             THEN createRecurringTaskInstance(saved, task, fault)
             ELSE saved

\* ---------------------------------------------------- PUT /api/tasks/:id
canUpdate(task, user) ==
    task.createdBy = user \/ role(user) = "admin" \/ role(user) = "manager"

isInstanceMadeRecurring(task, body) ==
    task.parentTaskId # NoValue /\ "isRecurring" \in DOMAIN body /\ body.isRecurring

recurringChanged(task, body) ==
    \/ "isRecurring" \notin DOMAIN body
    \/ task.isRecurring # body.isRecurring
    \/ task.recurringType # (IF "recurringType" \in DOMAIN body THEN body.recurringType ELSE NoType)

deleteMany(ts, parentId) ==
    [i \in { j \in DOMAIN ts : ts[j].parentTaskId # parentId } |-> ts[i]]

\* the task was marked completed: its next instance is created
completedStep(st, task, updatedTask, body, fault) ==
    LET isNowCompleted ==
            "status" \in DOMAIN body /\ body.status = "completed" /\ task.status # "completed"
    IN  IF isNowCompleted /\ updatedTask.isRecurring
        THEN createRecurringTaskInstance(st, updatedTask, fault)
        ELSE st

\* the recurring settings changed: the instances are deleted and the next one re-created
rescheduleStep(st, task, updatedTask, body, fault) ==
    IF recurringChanged(task, body) /\ updatedTask.isRecurring /\ fault # "deleteMany"
    THEN createRecurringTaskInstance([st EXCEPT !.tasks = deleteMany(@, updatedTask.id)],
                                     updatedTask, fault)
    ELSE st

updateSteps(st, task, updatedTask, body, fault) ==
    rescheduleStep(completedStep([st EXCEPT !.tasks[task.id] = updatedTask],
                                 task, updatedTask, body, fault),
                   task, updatedTask, body, fault)

putTask(st, user, id, body, fault) ==
    IF ~canUpdate(st.tasks[id], user) \/ isInstanceMadeRecurring(st.tasks[id], body)
    THEN st
    ELSE updateSteps(st, st.tasks[id], setFields(st.tasks[id], body), body, fault)

\* ------------------------------------------------- DELETE /api/tasks/:id
canDelete(task, user) == task.createdBy = user \/ role(user) = "admin"

deleteOne(ts, id) == [i \in DOMAIN ts \ {id} |-> ts[i]]

deleteTask(ts, user, id) == IF canDelete(ts[id], user) THEN deleteOne(ts, id) ELSE ts

\* ------------------------------------------------------------- the sweep
idleSweep ==
    [pc |-> "idle", queue |-> <<>>, selected1 |-> {}, attempted1 |-> {},
     selected2 |-> {}, attempted2 |-> {}, createdCount |-> 0, failed |-> FALSE,
     consecutive |-> FALSE, prevFailed |-> FALSE, upcomingRan |-> FALSE]

\* a variant in which an error of the completed-parent pass leaves the pass and ends
\* the tick in the callback's catch
completedPassRethrown == "finished"

\* processCompletedRecurringTasks catches what its find throws and returns: the
\* callback goes on to generateUpcomingRecurringTasks
completedPassCaught == "pass2"

completedRecurringTasks(ts) ==
    { i \in DOMAIN ts : ts[i].isRecurring /\ ts[i].status = "completed" }

\* a variant whose find has no filter: it returns every task of the store
everyTask(ts) == DOMAIN ts

rootRecurringTasks(ts) ==
    { i \in DOMAIN ts : ts[i].isRecurring /\ ts[i].parentTaskId = NoValue }

\* a variant whose count leaves out the parentTaskId condition
existingOnThatDay(ts, task) ==
    LET nextDueDate == calculateNextDueDate(task)
        startOfDay == setHoursZero(nextDueDate)
        endOfDay == setDate(startOfDay, getDate(startOfDay) + 1)
    IN  Cardinality({ i \in DOMAIN ts :
                        ts[i].dueDate >= startOfDay /\ ts[i].dueDate < endOfDay })

\* a variant that counts only the instances due at the very time of the next due date
existingAtThatTime(ts, task) ==
    Cardinality({ i \in DOMAIN ts :
                    /\ ts[i].parentTaskId = task.id
                    /\ ts[i].dueDate = calculateNextDueDate(task) })

\* countDocuments({parentTaskId, dueDate: {$gte: startOfDay, $lt: endOfDay}})
existingInstances(ts, task) ==
    LET nextDueDate == calculateNextDueDate(task)
        startOfDay == setHoursZero(nextDueDate)
        endOfDay == setDate(startOfDay, getDate(startOfDay) + 1)
    IN  Cardinality({ i \in DOMAIN ts :
                        /\ ts[i].parentTaskId = task.id
                        /\ ts[i].dueDate >= startOfDay
                        /\ ts[i].dueDate < endOfDay })

\* ------------------------------------------- the passes, run undisturbed
\* The two passes as functions of the store, when no storage call fails.
RECURSIVE createForEach(_, _)
createForEach(st, queue) ==
    IF queue = <<>> THEN st
    ELSE createForEach(createRecurringTaskInstance(st, Head(queue), "none"), Tail(queue))

processCompletedRecurringTasks(st) ==
    createForEach(st, inIdOrder(completedRecurringTasks(st.tasks), st.tasks))

createIfNoneExists(st, task) ==
    IF existingInstances(st.tasks, task) = 0
    THEN createRecurringTaskInstance(st, task, "none")
    ELSE st

RECURSIVE createMissing(_, _)
createMissing(st, queue) ==
    IF queue = <<>> THEN st
    ELSE createMissing(createIfNoneExists(st, Head(queue)), Tail(queue))

generateUpcomingRecurringTasks(st) ==
    createMissing(st, inIdOrder(rootRecurringTasks(st.tasks), st.tasks))

\* a variant that looks again for an instance at the moment of the insert
createIfStillMissing(st, task, fault) ==
    IF existingInstances(st.tasks, task) = 0
    THEN createRecurringTaskInstance(st, task, fault)
    ELSE [st EXCEPT !.calls = Append(@, [parent |-> task,
                                         newDueDate |-> calculateNextDueDate(task),
                                         fault |-> fault, result |-> NoValue,
                                         added |-> {}, sent |-> {}])]

\* the insert that follows a count of 0: the count is not looked at again
createAfterCheck(st, task, fault) == createRecurringTaskInstance(st, task, fault)

\* a storage call of the last createRecurringTaskInstance call failed
saveFailed(st) ==
    LET c == st.calls[Len(st.calls)]
    IN  c.fault = "save" /\ ~endDateReached(c.parent, c.newDueDate)

\* ---------------------------------------------------------------- actions
CreateTask ==
    /\ sweep.pc = "idle"
    /\ nRequests < MaxRequests
    /\ nRequests' = nRequests + 1
    /\ \E r \in CreateRequests, fault \in RouteFaults :
         commit(postTask(store, r.user, r.body, fault))
    /\ quiet' = FALSE
    /\ UNCHANGED <<sweep, nSweeps, calcVars, userVars>>

\* one PUT request, handled from its findById to its response
updateRequest ==
    /\ nRequests < MaxRequests
    /\ \E user \in Users, id \in DOMAIN tasks, body \in UpdateBodies, fault \in RouteFaults :
         commit(putTask(store, user, id, body, fault))
    /\ nRequests' = nRequests + 1
    /\ quiet' = FALSE
    /\ UNCHANGED <<sweep, nSweeps, calcVars, userVars>>

UpdateTask ==
    /\ sweep.pc = "idle"
    /\ updateRequest

DeleteTask ==
    /\ sweep.pc = "idle"
    /\ nRequests < MaxRequests
    /\ nRequests' = nRequests + 1
    /\ \E user \in Users, id \in DOMAIN tasks :
         tasks' = deleteTask(tasks, user, id)
    /\ calls' = <<>>
    /\ quiet' = FALSE
    /\ UNCHANGED <<nextId, sweep, nSweeps, calcVars, userVars>>

\* cron.schedule('0 0 * * *'): the tick starts processCompletedRecurringTasks, whose
\* Task.find selects the completed recurring tasks or throws into the pass's catch
startTick ==
    /\ sweep.pc = "idle"
    /\ \E ok \in BOOLEAN :
         LET found == IF ok THEN completedRecurringTasks(tasks) ELSE {}
         IN  sweep' = [idleSweep EXCEPT !.pc = IF ok THEN "completed" ELSE completedPassCaught,
                                        !.queue = inIdOrder(found, tasks),
                                        !.selected1 = found,
                                        !.failed = ~ok,
                                        !.consecutive = quiet,
                                        !.prevFailed = sweep.failed]
    /\ calls' = <<>>
    /\ UNCHANGED <<tasks, nextId, nRequests, quiet, calcVars, userVars>>

Tick ==
    /\ nSweeps < MaxSweeps
    /\ nSweeps' = nSweeps + 1
    /\ startTick

CompletedItem ==
    /\ sweep.pc = "completed"
    /\ sweep.queue # <<>>
    /\ \E fault \in Faults :
         \E st \in {createRecurringTaskInstance(store, Head(sweep.queue), fault)} :
             /\ commit(st)
             /\ sweep' = [sweep EXCEPT !.queue = Tail(@),
                                       !.attempted1 = @ \cup {Head(sweep.queue).id},
                                       !.failed = @ \/ saveFailed(st)]
    /\ UNCHANGED <<nRequests, nSweeps, quiet, calcVars, userVars>>

CompletedDone ==
    /\ sweep.pc = "completed"
    /\ sweep.queue = <<>>
    /\ sweep' = [sweep EXCEPT !.pc = "pass2"]
    /\ calls' = <<>>
    /\ UNCHANGED <<tasks, nextId, nRequests, nSweeps, quiet, calcVars, userVars>>

\* generateUpcomingRecurringTasks: its Task.find
UpcomingFind ==
    /\ sweep.pc = "pass2"
    /\ \E ok \in BOOLEAN :
         LET found == IF ok THEN rootRecurringTasks(tasks) ELSE {}
         IN  sweep' = [sweep EXCEPT !.pc = IF ok THEN "upcoming" ELSE "finished",
                                    !.queue = inIdOrder(found, tasks),
                                    !.selected2 = found,
                                    !.upcomingRan = TRUE,
                                    !.failed = @ \/ ~ok]
    /\ calls' = <<>>
    /\ UNCHANGED <<tasks, nextId, nRequests, nSweeps, quiet, calcVars, userVars>>

\* the existence count of one root; its failure is thrown out of the loop
UpcomingCount ==
    /\ sweep.pc = "upcoming"
    /\ sweep.queue # <<>>
    /\ \E ok \in BOOLEAN :
         LET task == Head(sweep.queue)
         IN  sweep' =
               IF ~ok
               THEN [sweep EXCEPT !.pc = "finished", !.queue = <<>>,
                                  !.attempted2 = @ \cup {task.id}, !.failed = TRUE]
               ELSE IF existingInstances(tasks, task) = 0
                    THEN [sweep EXCEPT !.pc = "create"]
                    ELSE [sweep EXCEPT !.queue = Tail(@), !.attempted2 = @ \cup {task.id}]
    /\ calls' = <<>>
    /\ UNCHANGED <<tasks, nextId, nRequests, nSweeps, quiet, calcVars, userVars>>

UpcomingCreate ==
    /\ sweep.pc = "create"
    /\ \E fault \in Faults :
         \E st \in {createAfterCheck(store, Head(sweep.queue), fault)} :
             /\ commit(st)
             /\ sweep' = [sweep EXCEPT !.pc = "upcoming",
                                       !.queue = Tail(@),
                                       !.attempted2 = @ \cup {Head(sweep.queue).id},
                                       !.createdCount =
                                           IF st.calls[1].result # NoValue THEN @ + 1 ELSE @,
                                       !.failed = @ \/ saveFailed(st)]
    /\ UNCHANGED <<nRequests, nSweeps, quiet, calcVars, userVars>>

UpcomingDone ==
    /\ sweep.pc = "upcoming"
    /\ sweep.queue = <<>>
    /\ sweep' = [sweep EXCEPT !.pc = "finished"]
    /\ calls' = <<>>
    /\ UNCHANGED <<tasks, nextId, nRequests, nSweeps, quiet, calcVars, userVars>>

TickReturn ==
    /\ sweep.pc = "finished"
    /\ sweep' = [idleSweep EXCEPT !.failed = sweep.failed]
    /\ quiet' = TRUE
    /\ calls' = <<>>
    /\ UNCHANGED <<tasks, nextId, nRequests, nSweeps, calcVars, userVars>>

Init ==
    /\ tasks = <<>>
    /\ nextId = 1
    /\ sweep = idleSweep
    /\ calls = <<>>
    /\ nRequests = 0
    /\ nSweeps = 0
    /\ quiet = FALSE
    /\ calcTask = <<>>
    /\ calcResult = NoValue
    /\ accounts = <<>>
    /\ userRequests = <<>>

Next ==
    \/ CreateTask
    \/ UpdateTask
    \/ DeleteTask
    \/ Tick
    \/ CompletedItem
    \/ CompletedDone
    \/ UpcomingFind
    \/ UpcomingCount
    \/ UpcomingCreate
    \/ UpcomingDone
    \/ TickReturn

Spec == Init /\ [][Next]_vars

\* the steps of a tick once it has started
SweepStep ==
    \/ CompletedItem
    \/ CompletedDone
    \/ UpcomingFind
    \/ UpcomingCount
    \/ UpcomingCreate
    \/ UpcomingDone
    \/ TickReturn

\* ------------------------------------ requests that arrive during a tick
\* The passes await every storage call, so a request can be handled between the
\* existence count of a root and the insert that follows it.
RacingUpdate ==
    /\ sweep.pc = "create"
    /\ updateRequest

RaceNext ==
    \/ Next
    \/ RacingUpdate

RaceSpec == Init /\ [][RaceNext]_vars

\* --------------------------------------------- ticks that keep coming
\* The cron job fires every midnight for as long as the server runs: ticks are not
\* counted here.
LiveTick ==
    /\ startTick
    /\ UNCHANGED nSweeps

LiveNext ==
    \/ CreateTask
    \/ UpdateTask
    \/ DeleteTask
    \/ LiveTick
    \/ SweepStep

\* A started tick runs on (the callback awaits each storage call in turn) and the
\* next one comes (cron fires again at the next midnight).
LiveFairness ==
    /\ WF_vars(LiveTick)
    /\ WF_vars(SweepStep)

LiveSpec == Init /\ [][LiveNext]_vars /\ LiveFairness

\* --------------------------------------- the calculator on its own inputs
CalcDates == { MakeDate(d, tod) : d \in 0 .. CalcLastDay, tod \in 0 .. TicksPerDay - 1 }

CalcWeekdays == {0, 1, 3, 5, 6}

CalcDaySeqs ==
    { <<a>> : a \in CalcWeekdays }
    \cup { s \in { <<a, b>> : a \in CalcWeekdays, b \in CalcWeekdays } : s[1] # s[2] }
    \cup { <<1, 3, 5>>, <<5, 3, 1>>, <<3, 5, 1>>, <<1, 4>> }

CalcParams ==
    [recurringType : {"daily", "custom"}, recurringInterval : {NoValue, 1, 2, 31},
     recurringDays : {<<>>}, recurringDate : {NoValue}]
    \cup [recurringType : {"weekly"}, recurringInterval : {NoValue, 1, 2},
          recurringDays : {<<>>}, recurringDate : {NoValue}]
    \cup [recurringType : {"weekly"}, recurringInterval : {NoValue, 2},
          recurringDays : CalcDaySeqs, recurringDate : {NoValue}]
    \cup [recurringType : {"monthly"}, recurringInterval : {NoValue, 2},
          recurringDays : {<<>>}, recurringDate : {1, 15, 28, 29, 30, 31}]
    \cup [recurringType : {"monthly"}, recurringInterval : {NoValue, 1, 2, 12},
          recurringDays : {<<>>}, recurringDate : {NoValue}]
    \cup [recurringType : {NoType}, recurringInterval : {NoValue, 1},
          recurringDays : {<<>>}, recurringDate : {NoValue}]

CalcTask(p, d) ==
    [dueDate |-> d, recurringType |-> p.recurringType,
     recurringInterval |-> p.recurringInterval, recurringDays |-> p.recurringDays,
     recurringDate |-> p.recurringDate]

CalcInit ==
    /\ calcTask \in { CalcTask(p, d) : p \in CalcParams, d \in CalcDates }
    /\ calcResult = NoValue
    /\ tasks = <<>>
    /\ nextId = 1
    /\ sweep = idleSweep
    /\ calls = <<>>
    /\ nRequests = 0
    /\ nSweeps = 0
    /\ quiet = FALSE
    /\ accounts = <<>>
    /\ userRequests = <<>>

CalcApply ==
    /\ calcResult = NoValue
    /\ calcResult' = calculateNextDueDate(calcTask)
    /\ UNCHANGED <<calcTask, storeVars, userVars>>

CalcNext == CalcApply

CalcSpec == CalcInit /\ [][CalcNext]_vars

\* ------------------------------------------------------ the user routes
\* Requests to PUT /api/users/:id/role, DELETE /api/users/:id and PUT /api/users/:id.
\* A handler gives up the thread at each await, so the steps of different requests
\* interleave: the token is checked and req.user read, the target is read, the write
\* is made.
MaxUsers == 2
MaxUserRequests == 2

UserIds == 1 .. MaxUsers

Roles == {"admin", "manager", "user"}

\* the requests that can be sent: who sends it, about whom, and the role in its body
UserRequestInputs ==
    [kind : {"role"}, actor : UserIds, target : UserIds, role : Roles]
    \cup [kind : {"delete"}, actor : UserIds, target : UserIds, role : {NoType}]
    \cup [kind : {"update"}, actor : UserIds, target : UserIds, role : Roles \cup {NoType}]

newUserRequest(input) ==
    [kind |-> input.kind, actor |-> input.actor, target |-> input.target,
     role |-> input.role, pc |-> "auth", reqUserRole |-> NoType, status |-> 0]

routePermission(kind) ==
    CASE kind = "role" -> "users:manage-roles"
      [] kind = "delete" -> "users:delete"
      [] kind = "update" -> "users:update"

\* checkPermission(permission) on the req.user that authenticateToken has read
checkPermission(reqUserRole, permission) ==
    reqUserRole \in Roles /\ permission \in rolePermissions(reqUserRole)

\* the handler's own check after it has read the target
isOwnAccount(req) ==
    /\ req.target = req.actor
    /\ req.kind = "update" => req.role # NoType

respond(req, status) == [req EXCEPT !.pc = "done", !.status = status]

SendUserRequest ==
    /\ Len(userRequests) < MaxUserRequests
    /\ \E input \in UserRequestInputs :
         userRequests' = Append(userRequests, newUserRequest(input))
    /\ UNCHANGED <<accounts, storeVars, calcVars>>

\* authenticateToken reads the sender's document; checkPermission follows at once
Authenticate ==
    /\ \E k \in DOMAIN userRequests :
         LET req == userRequests[k]
         IN  /\ req.pc = "auth"
             /\ userRequests' =
                  [userRequests EXCEPT ![k] =
                     IF req.actor \notin DOMAIN accounts THEN respond(req, 401)
                     ELSE IF ~checkPermission(accounts[req.actor], routePermission(req.kind))
                          THEN respond(req, 403)
                          ELSE [req EXCEPT !.pc = "find",
                                           !.reqUserRole = accounts[req.actor]]]
    /\ UNCHANGED <<accounts, storeVars, calcVars>>

\* User.findById(req.params.id) and the check against the sender's own account
FindUser ==
    /\ \E k \in DOMAIN userRequests :
         LET req == userRequests[k]
         IN  /\ req.pc = "find"
             /\ userRequests' =
                  [userRequests EXCEPT ![k] =
                     IF req.target \notin DOMAIN accounts THEN respond(req, 404)
                     ELSE IF isOwnAccount(req) THEN respond(req, 403)
                          ELSE [req EXCEPT !.pc = "write"]]
    /\ UNCHANGED <<accounts, storeVars, calcVars>>

\* PUT /:id/role: user.role = req.body.role; await user.save()
SaveRole ==
    /\ \E k \in DOMAIN userRequests :
         LET req == userRequests[k]
         IN  /\ req.pc = "write"
             /\ req.kind = "role"
             /\ IF req.target \in DOMAIN accounts
                THEN /\ accounts' = [accounts EXCEPT ![req.target] = req.role]
                     /\ userRequests' = [userRequests EXCEPT ![k] = respond(req, 200)]
                ELSE /\ accounts' = accounts
                     /\ userRequests' = [userRequests EXCEPT ![k] = respond(req, 500)]
    /\ UNCHANGED <<storeVars, calcVars>>

\* DELETE /:id: await user.deleteOne()
DeleteOneUser ==
    /\ \E k \in DOMAIN userRequests :
         LET req == userRequests[k]
         IN  /\ req.pc = "write"
             /\ req.kind = "delete"
             /\ accounts' = [u \in DOMAIN accounts \ {req.target} |-> accounts[u]]
             /\ userRequests' = [userRequests EXCEPT ![k] = respond(req, 200)]
    /\ UNCHANGED <<storeVars, calcVars>>

\* PUT /:id: User.findByIdAndUpdate(id, {$set: updateData})
FindByIdAndUpdate ==
    /\ \E k \in DOMAIN userRequests :
         LET req == userRequests[k]
         IN  /\ req.pc = "write"
             /\ req.kind = "update"
             /\ accounts' =
                  IF req.target \in DOMAIN accounts /\ req.role # NoType
                  THEN [accounts EXCEPT ![req.target] = req.role]
                  ELSE accounts
             /\ userRequests' = [userRequests EXCEPT ![k] = respond(req, 200)]
    /\ UNCHANGED <<storeVars, calcVars>>

\* the accounts at the start: every user has a role and at least one is an admin
UserInit ==
    /\ accounts \in { a \in [UserIds -> Roles] : \E u \in UserIds : a[u] = "admin" }
    /\ userRequests = <<>>
    /\ tasks = <<>>
    /\ nextId = 1
    /\ sweep = idleSweep
    /\ calls = <<>>
    /\ nRequests = 0
    /\ nSweeps = 0
    /\ quiet = FALSE
    /\ calcTask = <<>>
    /\ calcResult = NoValue

UserNext ==
    \/ SendUserRequest
    \/ Authenticate
    \/ FindUser
    \/ SaveRole
    \/ DeleteOneUser
    \/ FindByIdAndUpdate

UserSpec == UserInit /\ [][UserNext]_vars

\* ============================================================ properties
isRoot(r) ==
    r \in DOMAIN tasks /\ tasks[r].isRecurring /\ tasks[r].parentTaskId = NoValue

instancesOf(r) == { i \in DOMAIN tasks : tasks[i].parentTaskId = r }

withinEndDate(task) ==
    \/ task.recurringEndDate = NoValue
    \/ calculateNextDueDate(task) <= task.recurringEndDate

Min(S) == CHOOSE x \in S : \A y \in S : x <= y

\* C1: in every reachable state, for every root task r and every calendar day d, at
\* most one task with parentId = r has its dueDate on d.
C1_OneInstancePerDay ==
    \A r \in DOMAIN tasks : isRoot(r) =>
        \A i, j \in instancesOf(r) :
            DayOf(tasks[i].dueDate) = DayOf(tasks[j].dueDate) => i = j

\* the completed-parent pass has just given a completed root a second instance due
\* on the date of one it already has
C1_Witness ==
    /\ sweep.pc = "completed"
    /\ Len(calls) = 1
    /\ LET c == calls[1]
       IN  /\ isRoot(c.parent.id)
           /\ tasks[c.parent.id].status = "completed"
           /\ c.result \in instancesOf(c.parent.id)
           /\ \E i \in instancesOf(c.parent.id) :
                  i # c.result /\ tasks[i].dueDate = tasks[c.result].dueDate

\* C2: a tick that starts right after another tick has returned, with no request
\* handled in between and no storage failure in the first, creates no task.
C2_SecondSweepCreatesNothing ==
    [][(sweep.pc # "idle" /\ sweep.consecutive /\ ~sweep.prevFailed)
          => DOMAIN tasks' = DOMAIN tasks]_vars

\* the completed-parent pass of such a second tick has created a task
C2_Witness ==
    /\ sweep.pc = "completed"
    /\ sweep.consecutive
    /\ ~sweep.prevFailed
    /\ Len(calls) = 1
    /\ calls[1].result \in DOMAIN tasks

\* C3: when a sweep finishes without a storage failure, every root that has a
\* completed instance also has an instance due on the occurrence that follows the
\* completed instance's dueDate (unless that is past the root's end date).
C3_NextAfterCompletedInstance ==
    (sweep.pc = "finished" /\ ~sweep.failed) =>
        \A r \in DOMAIN tasks : isRoot(r) =>
            \A i \in instancesOf(r) :
                LET following == [tasks[r] EXCEPT !.dueDate = tasks[i].dueDate]
                IN  (tasks[i].status = "completed" /\ ~tasks[i].isRecurring
                       /\ withinEndDate(following))
                    => \E j \in instancesOf(r) :
                           tasks[j].dueDate = calculateNextDueDate(following)

\* the weekly root on days <<1, 4>> due Monday 2024-01-01 has its instance of
\* Thursday 2024-01-04 completed, a sweep has finished without failure, and there is
\* no instance due Monday 2024-01-08
C3_Witness ==
    /\ sweep.pc = "finished"
    /\ ~sweep.failed
    /\ \E r \in DOMAIN tasks :
         /\ isRoot(r)
         /\ tasks[r].recurringType = "weekly"
         /\ tasks[r].recurringDays = <<1, 4>>
         /\ tasks[r].dueDate = Monday
         /\ \E i \in instancesOf(r) :
                tasks[i].dueDate = Monday + 3 * TicksPerDay /\ tasks[i].status = "completed"
         /\ \A j \in instancesOf(r) : tasks[j].dueDate # Monday + 7 * TicksPerDay

\* C4: a createRecurringTaskInstance call whose next due date is later than the
\* parent's recurringEndDate returns null, adds no task and sends nothing; a call whose next due
\* date is not later (or whose parent has no end date) and whose save works returns
\* the persisted instance, due on that date and never past the end date.
C4_EndDateBoundsGeneration ==
    \A k \in DOMAIN calls :
        LET c == calls[k]
            endDate == c.parent.recurringEndDate
            next == calculateNextDueDate(c.parent)
        IN  /\ (endDate # NoValue /\ next > endDate)
                => (c.result = NoValue /\ c.added = {} /\ c.sent = {})
            /\ ((endDate = NoValue \/ next <= endDate) /\ c.fault # "save")
                => (c.result # NoValue /\ c.added = {c.result})
            /\ (c.result # NoValue /\ c.result \in DOMAIN tasks)
                => /\ tasks[c.result].parentTaskId = c.parent.id
                   /\ tasks[c.result].dueDate = next
                   /\ (endDate = NoValue \/ tasks[c.result].dueDate <= endDate)

\* a call on a parent whose next due date is past its end date has returned null
C4_Witness ==
    \E k \in DOMAIN calls :
        /\ calls[k].parent.recurringEndDate # NoValue
        /\ calculateNextDueDate(calls[k].parent) > calls[k].parent.recurringEndDate
        /\ calls[k].result = NoValue
        /\ calls[k].fault = "none"

\* C5: when a sweep finishes and no storage call failed during it, every root whose
\* next due date is not past its end date has an instance due on the calendar day
\* of that date.
C5_SweepCoversEveryRoot ==
    (sweep.pc = "finished" /\ ~sweep.failed) =>
        \A r \in DOMAIN tasks : (isRoot(r) /\ withinEndDate(tasks[r])) =>
            \E i \in instancesOf(r) :
                DayOf(tasks[i].dueDate) = DayOf(calculateNextDueDate(tasks[r]))

\* a sweep has finished without failure after creating an instance for a root
C5_Witness ==
    /\ sweep.pc = "finished"
    /\ ~sweep.failed
    /\ sweep.createdCount > 0
    /\ \E r \in sweep.selected2 : isRoot(r) /\ withinEndDate(tasks[r])

\* C6: for a weekly task with a non-empty recurringDays, in whatever order the days
\* are stored, the next due date is the smallest selected weekday after the
\* dueDate's weekday in the same week or, when there is none, the smallest selected
\* weekday of the following week.
C6_WeeklyNextSelectedDay ==
    (calcResult # NoValue /\ calcTask.recurringType = "weekly"
       /\ Len(calcTask.recurringDays) > 0)
    => LET days == { calcTask.recurringDays[k] : k \in DOMAIN calcTask.recurringDays }
           current == DayOf(calcTask.dueDate) % 7
           later == { d \in days : d > current }
           daysToAdd == IF later # {} THEN Min(later) - current
                        ELSE 7 - current + Min(days)
       IN  calcResult = calcTask.dueDate + daysToAdd * TicksPerDay

\* days stored as <<5, 3, 1>> and a Monday dueDate: the result is that week's
\* Friday, not its Wednesday
C6_Witness ==
    /\ calcTask.recurringType = "weekly"
    /\ calcTask.recurringDays = <<5, 3, 1>>
    /\ getDay(calcTask.dueDate) = 1
    /\ calcResult = calcTask.dueDate + 4 * TicksPerDay

\* C7: for a monthly task with recurringDate d, the next due date lies in the month
\* right after the dueDate's month, on day min(d, days in that month).
C7_MonthlyOnDateClamps ==
    (calcResult # NoValue /\ calcTask.recurringType = "monthly"
       /\ calcTask.recurringDate # NoValue)
    => LET y == getFullYear(calcTask.dueDate)
           m == getMonth(calcTask.dueDate)
           ny == IF m = 11 THEN y + 1 ELSE y
           nm == IF m = 11 THEN 0 ELSE m + 1
           d == calcTask.recurringDate
       IN  /\ getFullYear(calcResult) = ny
           /\ getMonth(calcResult) = nm
           /\ getDate(calcResult) = (IF d < DaysInMonth(ny, nm) THEN d ELSE DaysInMonth(ny, nm))

\* day 31 asked for from a dueDate late in January of a leap year: February 29
C7_Witness ==
    /\ calcResult # NoValue
    /\ calcTask.recurringType = "monthly"
    /\ calcTask.recurringDate = 31
    /\ getMonth(calcTask.dueDate) = 0
    /\ getDate(calcTask.dueDate) = 31
    /\ getMonth(calcResult) = 1
    /\ getDate(calcResult) = 29

\* C8: for a daily or custom task the next due date is the dueDate plus
\* recurringInterval days (1 when the interval is unset).
C8_DailyAddsInterval ==
    (calcResult # NoValue /\ calcTask.recurringType \in {"daily", "custom"})
    => calcResult = calcTask.dueDate
                      + (IF calcTask.recurringInterval = NoValue THEN 1
                         ELSE calcTask.recurringInterval) * TicksPerDay

\* a daily step of two days that crosses the end of the year
C8_Witness ==
    /\ calcResult # NoValue
    /\ calcTask.recurringType = "daily"
    /\ calcTask.recurringInterval = 2
    /\ getMonth(calcTask.dueDate) = 11
    /\ getDate(calcTask.dueDate) = 31
    /\ getFullYear(calcResult) = getFullYear(calcTask.dueDate) + 1

\* C9: no task has both isRecurring = true and a parentId.
C9_RootOrInstance ==
    \A i \in DOMAIN tasks : ~(tasks[i].isRecurring /\ tasks[i].parentTaskId # NoValue)

\* a recurring root has been given a parentTaskId by an update
C9_Witness ==
    \E i \in DOMAIN tasks :
        /\ tasks[i].isRecurring
        /\ tasks[i].recurringType = "weekly"
        /\ tasks[i].parentTaskId # NoValue
        /\ calls = <<>>
        /\ sweep.pc = "idle"

\* C10: when a tick has finished, each pass has handled every task it selected.
C10_PassHandlesEverySelected ==
    sweep.pc = "finished" =>
        /\ sweep.attempted1 = sweep.selected1
        /\ sweep.attempted2 = sweep.selected2

\* the upcoming-root pass has ended with a selected root it never reached
C10_Witness ==
    /\ sweep.pc = "finished"
    /\ sweep.attempted1 = sweep.selected1
    /\ sweep.selected2 \ sweep.attempted2 # {}

instancesDueOn(ts, r, day) ==
    Cardinality({ i \in DOMAIN ts : ts[i].parentTaskId = r /\ DayOf(ts[i].dueDate) = day })

dueDays(ts) == { DayOf(ts[i].dueDate) : i \in DOMAIN ts }

completedThenUpcoming ==
    generateUpcomingRecurringTasks(processCompletedRecurringTasks(store)).tasks

upcomingThenCompleted ==
    processCompletedRecurringTasks(generateUpcomingRecurringTasks(store)).tasks

\* C11: from any state between ticks, running the completed-parent pass and then the
\* upcoming-root pass leaves, for every root and due day, as many instances as
\* running the upcoming-root pass and then the completed-parent pass.
C11_PassOrderIrrelevant ==
    sweep.pc = "idle" =>
        \A r \in DOMAIN tasks :
            \A d \in dueDays(completedThenUpcoming) \cup dueDays(upcomingThenCompleted) :
                instancesDueOn(completedThenUpcoming, r, d)
                    = instancesDueOn(upcomingThenCompleted, r, d)

\* a completed root without an instance on its next day: one order leaves one
\* instance on that day, the other leaves two
C11_Witness ==
    /\ sweep.pc = "idle"
    /\ \E r \in DOMAIN tasks :
         /\ isRoot(r)
         /\ tasks[r].status = "completed"
         /\ instancesOf(r) = {}
         /\ instancesDueOn(completedThenUpcoming, r, DayOf(calculateNextDueDate(tasks[r]))) = 1
         /\ instancesDueOn(upcomingThenCompleted, r, DayOf(calculateNextDueDate(tasks[r]))) = 2

\* the call's parent had no end date, or its next due date was not past it
callWithinEndDate(c) ==
    c.parent.recurringEndDate = NoValue \/ c.newDueDate <= c.parent.recurringEndDate

\* C12: a createRecurringTaskInstance call whose notification fails returns the
\* instance it saved; the instance is in the store when the caller is done, and a
\* sweep pass goes on as after a creation (the root is handled, the creation counted).
C12_NotificationFailureSwallowed ==
    \A k \in DOMAIN calls :
        (calls[k].fault = "notify" /\ callWithinEndDate(calls[k])) =>
            /\ calls[k].result # NoValue
            /\ calls[k].added = {calls[k].result}
            /\ calls[k].sent = {}
            /\ (k = Len(calls) => calls[k].result \in DOMAIN tasks)
            /\ (sweep.pc = "completed" => calls[k].parent.id \in sweep.attempted1)
            /\ (sweep.pc = "upcoming" =>
                   (sweep.createdCount > 0 /\ calls[k].parent.id \in sweep.attempted2))

\* the upcoming-root pass has created an instance whose assignee is not its creator
\* while the notification failed
C12_Witness ==
    /\ sweep.pc = "upcoming"
    /\ Len(calls) = 1
    /\ calls[1].fault = "notify"
    /\ calls[1].result \in DOMAIN tasks
    /\ tasks[calls[1].result].assignedTo # tasks[calls[1].result].createdBy
    /\ calls[1].sent = {}

\* C13: a createRecurringTaskInstance call whose save fails returns null, adds no
\* task and sends no notification; when a sweep pass makes the call, every task is
\* as it was before.
C13_SaveFailureReturnsNull ==
    [][/\ \A k \in DOMAIN calls' :
             calls'[k].fault = "save" =>
                 (calls'[k].result = NoValue /\ calls'[k].added = {} /\ calls'[k].sent = {})
       /\ (sweep.pc \in {"completed", "create"} /\ calls' # <<>> /\ calls'[1].fault = "save")
             => tasks' = tasks]_vars

\* the upcoming-root pass has made a call whose save failed for a root within its
\* end date
C13_Witness ==
    /\ sweep.pc = "upcoming"
    /\ Len(calls) = 1
    /\ calls[1].fault = "save"
    /\ callWithinEndDate(calls[1])
    /\ calls[1].result = NoValue
    /\ tasks # <<>>

\* C14: whatever storage call or notification fails, a tick that has started can
\* always take its next step (nothing is thrown out of it; only the bound on the
\* number of documents stops an insert), and a tick that ends has run the
\* upcoming-root pass, also after a failure in the completed-parent pass.
C14_TickNeverThrows ==
    /\ (sweep.pc # "idle" /\ nextId <= MaxTasks) => ENABLED SweepStep
    /\ sweep.pc = "finished" => sweep.upcomingRan

\* the completed-parent pass has failed and the upcoming-root pass has selected its
\* roots in the same tick
C14_Witness ==
    /\ sweep.pc = "upcoming"
    /\ sweep.failed
    /\ sweep.upcomingRan
    /\ sweep.selected2 # {}
    /\ sweep.attempted2 = {}

\* C15: the task a createRecurringTaskInstance call has just saved has status todo,
\* isRecurring false, the parent's id as parentTaskId, the parent's next due date as
\* dueDate, the parent's title, description, priority, assignedTo and createdBy as
\* passed to the call, and no recurrence setting.
C15_InstanceFields ==
    \A k \in DOMAIN calls :
        (k = Len(calls) /\ calls[k].result \in DOMAIN tasks) =>
            LET t == tasks[calls[k].result]
                parent == calls[k].parent
            IN  /\ t.status = "todo"
                /\ t.isRecurring = FALSE
                /\ t.parentTaskId = parent.id
                /\ t.dueDate = calculateNextDueDate(parent)
                /\ t.title = parent.title
                /\ t.description = parent.description
                /\ t.priority = parent.priority
                /\ t.assignedTo = parent.assignedTo
                /\ t.createdBy = parent.createdBy
                /\ t.recurringType = NoType
                /\ t.recurringInterval = NoValue
                /\ t.recurringDays = <<>>
                /\ t.recurringDate = NoValue
                /\ t.recurringEndDate = NoValue

\* an instance has just been saved for a completed daily parent that has an end date
C15_Witness ==
    /\ calls # <<>>
    /\ calls[Len(calls)].result \in DOMAIN tasks
    /\ calls[Len(calls)].parent.status = "completed"
    /\ calls[Len(calls)].parent.recurringType = "daily"
    /\ calls[Len(calls)].parent.recurringEndDate # NoValue
    /\ tasks[calls[Len(calls)].result].status = "todo"

\* C16: for every stored task and every user, the delete route removes the task
\* exactly when the user created it or the user's role holds tasks:delete-all.
C16_DeleteFollowsPermissions ==
    \A i \in DOMAIN tasks :
        \A u \in Users :
            (deleteTask(tasks, u, i) # tasks)
                <=> (tasks[i].createdBy = u \/ hasPermission(u, "tasks:delete-all"))

\* a task created by a regular user, which the manager's delete request leaves in
\* place although the manager role holds tasks:delete-all
C16_Witness ==
    \E i \in DOMAIN tasks :
        /\ tasks[i].createdBy = "user"
        /\ hasPermission("manager", "tasks:delete-all")
        /\ deleteTask(tasks, "manager", i) = tasks
        /\ deleteTask(tasks, "admin", i) # tasks

\* C17: when the upcoming-root pass has counted no instance for a root and a request
\* inserts one for the same day before the pass inserts, the pass still inserts: the
\* root then has at least two instances due on that day.
C17_CheckThenInsertRace ==
    [][(/\ sweep.pc = "create"
        /\ sweep'.pc = "upcoming"
        /\ calls'[1].fault # "save"
        /\ callWithinEndDate(calls'[1])
        /\ existingInstances(tasks, Head(sweep.queue)) > 0)
       => instancesDueOn(tasks', Head(sweep.queue).id, DayOf(calls'[1].newDueDate)) >= 2]_vars

\* the pass has just inserted an instance for a root that already had one due on the
\* same day, created by an update request handled after the count
C17_Witness ==
    /\ sweep.pc = "upcoming"
    /\ Len(calls) = 1
    /\ calls[1].result \in DOMAIN tasks
    /\ \E i \in DOMAIN tasks :
         /\ i # calls[1].result
         /\ tasks[i].parentTaskId = calls[1].parent.id
         /\ DayOf(tasks[i].dueDate) = DayOf(calls[1].newDueDate)
         /\ tasks[i].status = "todo"

\* the root at the head of the pass has an instance due on the day of its next due date
coveredOnNextDay(root) ==
    \E i \in DOMAIN tasks :
        /\ tasks[i].parentTaskId = root.id
        /\ DayOf(tasks[i].dueDate) = DayOf(calculateNextDueDate(root))

\* C18: in the upcoming-root pass the count of a root leads to a creation exactly
\* when no task with the root as parent is due on the calendar day of the root's next
\* due date, at whatever time of that day; the other steps of the pass create nothing.
C18_ExistenceWindow ==
    [][/\ (sweep.pc = "upcoming" /\ sweep.queue # <<>>) =>
            /\ sweep'.pc = "create" => ~coveredOnNextDay(Head(sweep.queue))
            /\ sweep'.pc = "upcoming" => coveredOnNextDay(Head(sweep.queue))
       /\ (sweep.pc \in {"pass2", "upcoming", "finished"}) => tasks' = tasks]_vars

\* the pass has skipped a root whose only instance is due on the day of its next due
\* date at another time of the day
C18_Witness ==
    /\ sweep.pc = "upcoming"
    /\ sweep.createdCount = 0
    /\ \E r \in sweep.attempted2 :
         /\ isRoot(r)
         /\ instancesOf(r) # {}
         /\ \A i \in instancesOf(r) :
                /\ tasks[i].dueDate # calculateNextDueDate(tasks[r])
                /\ DayOf(tasks[i].dueDate) = DayOf(calculateNextDueDate(tasks[r]))

\* r is a root within its end date without an instance due on its next day
missingInstance(r) ==
    /\ isRoot(r)
    /\ withinEndDate(tasks[r])
    /\ instancesDueOn(tasks, r, DayOf(calculateNextDueDate(tasks[r]))) = 0

\* a sweep has come to its end and every storage call of it has worked
sweepWithoutFailure == sweep.pc = "finished" /\ ~sweep.failed

\* C19: a creation of the upcoming-root pass, failed or not, moves the pass to the
\* next root (the root is not handled twice in a run); and with ticks that keep
\* coming, if again and again a sweep runs in which storage works, a root within its
\* end date that has no instance due on its next day gets one: again and again no
\* such root is without its instance (for as long as the store has room for another
\* document).
C19_FailedCreationRetriedNextSweep ==
    /\ [][(sweep.pc = "create" /\ sweep'.pc = "upcoming")
            => (/\ Head(sweep.queue).id \notin sweep.attempted2
                /\ sweep'.queue = Tail(sweep.queue)
                /\ Head(sweep.queue).id \in sweep'.attempted2)]_vars
    /\ []<>sweepWithoutFailure =>
          []<>(nextId > MaxTasks \/ \A r \in DOMAIN tasks : ~missingInstance(r))

\* a creation of the pass has failed at the save for a root that a tick had already
\* failed on: the root is still without its instance
C19_Witness ==
    /\ sweep.pc = "upcoming"
    /\ sweep.prevFailed
    /\ Len(calls) = 1
    /\ calls[1].fault = "save"
    /\ callWithinEndDate(calls[1])
    /\ missingInstance(calls[1].parent.id)

\* C20: for a monthly task without recurringDate, the next due date lies in the month
\* recurringInterval months (1 when unset) after the dueDate's month, on the dueDate's
\* day of the month or, when that month is shorter, on its last day.
C20_MonthlyByIntervalClamps ==
    (calcResult # NoValue /\ calcTask.recurringType = "monthly"
       /\ calcTask.recurringDate = NoValue)
    => LET m == getMonth(calcTask.dueDate) + intervalOrOne(calcTask)
           ny == getFullYear(calcTask.dueDate) + m \div 12
           nm == m % 12
           d == getDate(calcTask.dueDate)
       IN  /\ getFullYear(calcResult) = ny
           /\ getMonth(calcResult) = nm
           /\ getDate(calcResult) = (IF d < DaysInMonth(ny, nm) THEN d ELSE DaysInMonth(ny, nm))

\* January 31 of a leap year with the interval unset: the result is March 2
C20_Witness ==
    /\ calcResult # NoValue
    /\ calcTask.recurringType = "monthly"
    /\ calcTask.recurringDate = NoValue
    /\ calcTask.recurringInterval = NoValue
    /\ getFullYear(calcTask.dueDate) = 2024
    /\ getMonth(calcTask.dueDate) = 0
    /\ getDate(calcTask.dueDate) = 31
    /\ getMonth(calcResult) = 2
    /\ getDate(calcResult) = 2

\* the PUT request handled by the step, when it has made a createRecurringTaskInstance
\* call: the call's parent is the updated task
requestMadeCall == sweep.pc = "idle" /\ sweep'.pc = "idle" /\ calls' # <<>>

\* C21: an update request that leaves the task's isRecurring and recurringType values
\* as stored deletes none of the task's instances.
C21_UnchangedSettingsKeepInstances ==
    [][requestMadeCall =>
         LET r == calls'[Len(calls')].parent.id
         IN  (/\ r \in DOMAIN tasks
              /\ tasks'[r].isRecurring = tasks[r].isRecurring
              /\ tasks'[r].recurringType = tasks[r].recurringType)
             => instancesOf(r) \subseteq DOMAIN tasks']_vars

\* a body holding only a title has been applied to the root created first: the
\* instance its POST request had made is gone and another one has been created
C21_Witness ==
    /\ sweep.pc = "idle"
    /\ Len(calls) = 1
    /\ calls[1].parent.id = 1
    /\ calls[1].parent.title = "C"
    /\ calls[1].parent.recurringType = "daily"
    /\ isRoot(1)
    /\ 2 \notin DOMAIN tasks
    /\ calls[1].result = 3
    /\ instancesOf(1) = {3}

\* C22: every createRecurringTaskInstance call is made on a task with isRecurring set
\* and without a parentTaskId, and no task's parentTaskId names a task that itself
\* has a parentTaskId.
C22_OnlyRootsGenerate ==
    /\ \A k \in 1 .. Len(calls) :
          calls[k].parent.isRecurring /\ calls[k].parent.parentTaskId = NoValue
    /\ \A i \in DOMAIN tasks :
          tasks[i].parentTaskId \in DOMAIN tasks
              => tasks[tasks[i].parentTaskId].parentTaskId = NoValue

\* a request has called createRecurringTaskInstance on a task that has a parentTaskId,
\* and the instance it made names that task as its parent
C22_Witness ==
    /\ sweep.pc = "idle"
    /\ Len(calls) = 1
    /\ calls[1].parent.parentTaskId # NoValue
    /\ calls[1].result \in DOMAIN tasks
    /\ tasks[calls[1].result].parentTaskId = calls[1].parent.id
    /\ calls[1].parent.id \in DOMAIN tasks
    /\ calls[1].parent.id # calls[1].parent.parentTaskId
    /\ tasks[calls[1].parent.id].parentTaskId # NoValue

\* C23: a step of a sweep leaves every task of the store in place and as it was; the
\* tasks it adds are instances of tasks that were there.
C23_SweepOnlyAddsInstances ==
    [][(sweep.pc # "idle" \/ sweep'.pc # "idle") =>
         /\ \A i \in DOMAIN tasks : i \in DOMAIN tasks' /\ tasks'[i] = tasks[i]
         /\ \A i \in DOMAIN tasks' \ DOMAIN tasks :
               /\ tasks'[i].parentTaskId \in DOMAIN tasks
               /\ ~tasks'[i].isRecurring]_vars

\* a sweep in which both passes have made calls has come to its end, and its
\* upcoming-root pass has added an instance
C23_Witness ==
    /\ sweep.pc = "finished"
    /\ sweep.attempted1 # {}
    /\ sweep.attempted2 # {}
    /\ sweep.createdCount > 0

\* C24: for a weekly task without recurringDays the next due date is the dueDate plus
\* 7 * recurringInterval days (7 days when the interval is unset).
C24_WeeklyWithoutDaysAddsWeeks ==
    (calcResult # NoValue /\ calcTask.recurringType = "weekly"
       /\ calcTask.recurringDays = <<>>)
    => calcResult = calcTask.dueDate
                      + 7 * (IF calcTask.recurringInterval = NoValue THEN 1
                             ELSE calcTask.recurringInterval) * TicksPerDay

\* a step of two weeks from late February of a leap year into March
C24_Witness ==
    /\ calcResult # NoValue
    /\ calcTask.recurringType = "weekly"
    /\ calcTask.recurringDays = <<>>
    /\ calcTask.recurringInterval = 2
    /\ getFullYear(calcTask.dueDate) = 2024
    /\ getMonth(calcTask.dueDate) = 1
    /\ getDate(calcTask.dueDate) = 20
    /\ getMonth(calcResult) = 2
    /\ getDate(calcResult) = 5

C26_CreateRouteMakesFirstInstance ==
    [][(/\ sweep.pc = "idle" /\ sweep'.pc = "idle"
        /\ nextId \in DOMAIN tasks'
        /\ tasks'[nextId].isRecurring)
       => LET children == { i \in DOMAIN tasks' : tasks'[i].parentTaskId = nextId }
          IN  IF withinEndDate(tasks'[nextId])
              THEN /\ Cardinality(children) = 1
                   /\ \A i \in children :
                         tasks'[i].dueDate = calculateNextDueDate(tasks'[nextId])
              ELSE children = {}]_vars

\* a create request has stored a recurring root whose next due date is within its end
\* date; the save of the first instance failed and the root has no instance
C26_Witness ==
    /\ sweep.pc = "idle"
    /\ Len(calls) = 1
    /\ calls[1].fault = "save"
    /\ calls[1].parent.id = nextId - 1
    /\ isRoot(nextId - 1)
    /\ withinEndDate(tasks[nextId - 1])
    /\ instancesOf(nextId - 1) = {}

queueIds == { sweep.queue[k].id : k \in DOMAIN sweep.queue }

\* the list a running pass works on: tasks its find selected, each once, none of them
\* handled yet; only recurring tasks of the store are selected
passWorksOnItsList ==
    sweep.pc # "idle" =>
        /\ sweep.selected1 \cup sweep.selected2 \subseteq
               { i \in DOMAIN tasks : tasks[i].isRecurring }
        /\ sweep.attempted1 \subseteq sweep.selected1
        /\ sweep.attempted2 \subseteq sweep.selected2
        /\ Cardinality(queueIds) = Len(sweep.queue)
        /\ sweep.pc = "completed" =>
               queueIds = sweep.selected1 \ sweep.attempted1
        /\ sweep.pc \in {"upcoming", "create"} =>
               queueIds = sweep.selected2 \ sweep.attempted2
        /\ sweep.pc \in {"pass2", "finished"} => sweep.queue = <<>>

\* a step of a running sweep: the lists are read once, a call is made on the head of
\* the list and takes it off, and a task the step adds is not recurring and selected
\* by neither pass
passStepsThroughItsList ==
    (sweep.pc # "idle") =>
        /\ sweep.pc # "finished" => sweep'.selected1 = sweep.selected1
        /\ sweep.pc \notin {"pass2", "finished"} => sweep'.selected2 = sweep.selected2
        /\ sweep.pc \in {"completed", "upcoming", "create"} =>
               \/ sweep'.queue \in {sweep.queue, <<>>}
               \/ sweep.queue # <<>> /\ sweep'.queue = Tail(sweep.queue)
        /\ calls' # <<>> =>
               /\ Len(calls') = 1
               /\ calls'[1].parent = Head(sweep.queue)
               /\ sweep'.queue = Tail(sweep.queue)
               /\ sweep.pc = "completed" =>
                      /\ Head(sweep.queue).id \notin sweep.attempted1
                      /\ Head(sweep.queue).id \in sweep'.attempted1
               /\ sweep.pc # "completed" =>
                      /\ Head(sweep.queue).id \notin sweep.attempted2
                      /\ Head(sweep.queue).id \in sweep'.attempted2
        /\ \A i \in DOMAIN tasks' \ DOMAIN tasks :
               /\ calls' # <<>>
               /\ ~tasks'[i].isRecurring
               /\ i \notin sweep'.selected1 \cup sweep'.selected2

\* C27: a started sweep comes to its end; each pass goes once through the list its
\* find returned, makes at most one createRecurringTaskInstance call for a task of
\* the list, and never selects an instance created during the run.
C27_SweepTerminates ==
    /\ []passWorksOnItsList
    /\ [][passStepsThroughItsList]_vars
    /\ []<>(sweep.pc = "idle")

\* the completed-parent pass has created an instance in this run, and the
\* upcoming-root pass after it has selected its roots and handled one of them
C27_Witness ==
    /\ sweep.pc = "upcoming"
    /\ sweep.attempted1 # {}
    /\ sweep.attempted2 # {}
    /\ \E i \in DOMAIN tasks :
          tasks[i].parentTaskId \in sweep.attempted1 /\ i \notin sweep.selected2

\* C28: every task with isRecurring set has a recurringType, and its next due date is
\* later than its dueDate.
C28_NextDueDateIsLater ==
    \A i \in DOMAIN tasks :
        tasks[i].isRecurring =>
            /\ tasks[i].recurringType # NoType
            /\ calculateNextDueDate(tasks[i]) > tasks[i].dueDate

\* an update has set isRecurring on a task without a recurringType, and the instance
\* generated for it is due at the task's own dueDate
C28_Witness ==
    \E r \in DOMAIN tasks :
        /\ tasks[r].isRecurring
        /\ tasks[r].recurringType = NoType
        /\ \E i \in instancesOf(r) : tasks[i].dueDate = tasks[r].dueDate

\* C29: every task's parentTaskId names a task of the store.
C29_ParentExists ==
    \A i \in DOMAIN tasks :
        tasks[i].parentTaskId # NoValue => tasks[i].parentTaskId \in DOMAIN tasks

\* the root created first has been deleted through the delete route; the instance its
\* create request had generated is still there and names it as its parent
C29_Witness ==
    /\ sweep.pc = "idle"
    /\ nSweeps = 0
    /\ nRequests = 2
    /\ nextId = 3
    /\ DOMAIN tasks = {2}
    /\ tasks[2].parentTaskId = 1
    /\ ~tasks[2].isRecurring

\* C30: at least one account has the admin role.
C30_AnAdminRemains ==
    \E u \in DOMAIN accounts : accounts[u] = "admin"

\* two admins have each changed the other's role, both requests were answered 200,
\* and no account has the admin role
C30_Witness ==
    /\ Len(userRequests) = 2
    /\ \A k \in DOMAIN userRequests :
          /\ userRequests[k].kind = "role"
          /\ userRequests[k].status = 200
          /\ userRequests[k].reqUserRole = "admin"
    /\ userRequests[1].actor = userRequests[2].target
    /\ userRequests[2].actor = userRequests[1].target
    /\ DOMAIN accounts = UserIds
    /\ \A u \in DOMAIN accounts : accounts[u] # "admin"

=============================================================================
